---------------------------- MODULE Spec2Model ----------------------------
(***************************************************************************)
(* Model of the smart-backup subsystem (Scripts/smart-backup.py, class     *)
(* SmartBackup): the backup index (tables backups and file_hashes), the    *)
(* backup writer, the change detector, verification, restore and the       *)
(* retention manager, together with the vault owner's edits, the clock and *)
(* an external kill of a running backup.                                   *)
(*                                                                         *)
(* Paths and file contents are sequences of tokens; a token stands for a   *)
(* run of characters ("a", ".md", "/").  SHA-256 is modelled as an         *)
(* injective function of the bytes fed to it.                              *)
(***************************************************************************)
EXTENDS Integers, Sequences, FiniteSets, TLC

(***************************************************************************)
(* Bounds of the model.                                                    *)
(***************************************************************************)
MaxTime == 4
MaxRuns == 2
MaxEdits == 1
MaxTamper == 1
\* files in the vault
MaxFiles == 2

\* retention_days as configured in backup_config.json, in days
RetentionDays == 1
\* clock ticks per day: the clock of the model has half-day resolution
TicksPerDay == 2

(***************************************************************************)
(* Vault files (paths relative to the vault root) and file contents.       *)
(***************************************************************************)
F_note == <<"a", ".md">>
F_gz == <<"a", ".md", ".gz">>
F_tmp == <<"b", ".tmp">>
F_img == <<"d", "/", "c", ".png">>
Files == {F_note, F_gz, F_tmp, F_img}

Bytes == {<<"x">>, <<"y">>, <<"GZ", "x">>}

\* the results file of the health check, and what it may hold: a JSON
\* object with a summary of more fields than the snapshot keeps, a JSON
\* object without a summary, text that is not JSON
F_health == <<"Scripts", "/", "vault-health-results", ".json">>
HealthFull ==
  <<"{", "summary", "total_files", "broken_links_count", "scan_date", "orphans">>
HealthBare == <<"{">>
HealthContents == {HealthFull, HealthBare, <<"x">>}

\* content of a file that cannot be opened for reading
Unreadable == <<"EACCES">>

(***************************************************************************)
(* Sequences.                                                              *)
(***************************************************************************)
Last(s) == s[Len(s)]
Front(s) == SubSeq(s, 1, Len(s) - 1)

\* str.find(sub) != -1
Find(s, sub) ==
  \E i \in 1..(Len(s) + 1) :
    /\ i + Len(sub) - 1 <= Len(s)
    /\ SubSeq(s, i, i + Len(sub) - 1) = sub

\* str.replace('*', '')
RECURSIVE StripStar(_)
StripStar(p) ==
  IF p = <<>> THEN <<>>
  ELSE IF Head(p) = "*" THEN StripStar(Tail(p))
       ELSE <<Head(p)>> \o StripStar(Tail(p))

\* character order of the tokens ('.' < '/' < letters); "/" only separates
\* path components, which compare component by component
TokRank(t) ==
  CASE t = "/" -> 0
    [] t = ".gz" -> 1
    [] t = ".json" -> 2
    [] t = ".md" -> 3
    [] t = ".png" -> 4
    [] t = ".tmp" -> 5
    [] t = "Scripts" -> 6
    [] t = "a" -> 7
    [] t = "b" -> 8
    [] t = "c" -> 9
    [] t = "d" -> 10
    [] t = "vault-health-results" -> 11
    [] OTHER -> 12

RECURSIVE PathLess(_, _)
PathLess(p, q) ==
  IF q = <<>> THEN FALSE
  ELSE IF p = <<>> THEN TRUE
  ELSE IF Head(p) = Head(q) THEN PathLess(Tail(p), Tail(q))
  ELSE TokRank(Head(p)) < TokRank(Head(q))

(***************************************************************************)
(* pathlib.                                                                *)
(***************************************************************************)
\* index of the last "/" of a path, 0 when it has one component
RECURSIVE LastSlash(_)
LastSlash(p) ==
  IF p = <<>> THEN 0
  ELSE IF Last(p) = "/" THEN Len(p)
  ELSE LastSlash(Front(p))

\* Path.name
Name(p) == SubSeq(p, LastSlash(p) + 1, Len(p))

\* Path.parent, <<>> for the root of the tree
Parent(p) == IF LastSlash(p) = 0 THEN <<>> ELSE SubSeq(p, 1, LastSlash(p) - 1)

IsExt(t) == t \in {".md", ".gz", ".tmp", ".png", ".txt", ".json"}

\* Path.suffix: the last extension of the name, "" when there is none
Suffix(p) ==
  IF Len(Name(p)) >= 2 /\ IsExt(Last(p)) THEN Last(p) ELSE ""

\* Path.with_suffix('')
WithoutSuffix(p) == IF Suffix(p) = "" THEN p ELSE Front(p)

\* fnmatch.fnmatchcase of one path component against one pattern component
RECURSIVE Fnmatch(_, _)
Fnmatch(n, pat) ==
  IF pat = <<>> THEN n = <<>>
  ELSE IF Head(pat) = "*"
       THEN \E k \in 0..Len(n) : Fnmatch(SubSeq(n, k + 1, Len(n)), Tail(pat))
       ELSE /\ n # <<>>
            /\ Head(n) = Head(pat)
            /\ Fnmatch(Tail(n), Tail(pat))

\* PurePath.match with a relative pattern: the components are matched from
\* the right
RECURSIVE PathMatch(_, _)
PathMatch(p, pat) ==
  /\ Fnmatch(Name(p), Name(pat))
  /\ IF LastSlash(pat) = 0 THEN TRUE
     ELSE /\ LastSlash(p) # 0
          /\ PathMatch(Parent(p), Parent(pat))

(***************************************************************************)
(* Configuration (SmartBackup.__init__).                                   *)
(***************************************************************************)
ExcludePatterns ==
  { <<".obsidian", "/", "workspace", "*">>,
    <<".obsidian", "/", "hotkeys", ".json">>,
    <<".obsidian", "/", "app", ".json">>,
    <<".DS_Store">>,
    <<"*", ".tmp">>,
    <<"__pycache__">> }

Compressible == {".md", ".txt", ".json"}

\* all() in place of any(): a path is excluded only if every pattern matches
should_exclude_All(f) ==
  \A pattern \in ExcludePatterns :
    PathMatch(f, pattern) \/ Find(f, StripStar(pattern))

\* lines 111-118
should_exclude(f) ==
  \E pattern \in ExcludePatterns :
    PathMatch(f, pattern) \/ Find(f, StripStar(pattern))

(***************************************************************************)
(* Hashing, compression, timestamps.                                       *)
(***************************************************************************)
\* hexdigest of SHA-256 over the bytes c
hexdigest(c) == <<"sha">> \o c

\* the value calculate_file_hash returns when the file cannot be read
NoHash == <<>>

calculate_file_hash(c) == IF c = Unreadable THEN NoHash ELSE hexdigest(c)

\* gzip: a header followed by the payload
gzip(c) == <<"GZ">> \o c
IsGzip(c) == c # <<>> /\ Head(c) = "GZ"
gunzip(c) == Tail(c)

\* st_size
Size(c) == Len(c)

\* datetime.isoformat(): the fraction is left out when it is zero
isoformat(t) ==
  IF t % TicksPerDay = 0 THEN <<t \div TicksPerDay>>
  ELSE <<t \div TicksPerDay, t % TicksPerDay>>

\* datetime.fromisoformat()
fromisoformat(s) ==
  IF Len(s) = 1 THEN s[1] * TicksPerDay ELSE s[1] * TicksPerDay + s[2]

\* comparison of two TEXT values in SQLite (memcmp, the shorter of two
\* values with a common prefix first)
TextLess(s, t) ==
  \/ s[1] < t[1]
  \/ /\ s[1] = t[1]
     /\ \/ Len(s) < Len(t)
        \/ Len(s) = 2 /\ Len(t) = 2 /\ s[2] < t[2]

(***************************************************************************)
(* Functions with finite domains (directories, tables).                    *)
(***************************************************************************)
Empty == [x \in {} |-> x]
Put(f, k, v) == [x \in DOMAIN f \cup {k} |-> IF x = k THEN v ELSE f[x]]
Drop(f, K) == [x \in DOMAIN f \ K |-> f[x]]
\* the table is emptied before the rows of the run are written
Merge_Replace(f, g) == g

\* g over f
Merge(f, g) == [x \in DOMAIN f \cup DOMAIN g |-> IF x \in DOMAIN g THEN g[x] ELSE f[x]]

\* SQL NULL
NULL == 0

(***************************************************************************)
(* State.                                                                  *)
(***************************************************************************)
VARIABLES
  vault_root,   \* whether the directory vault_path exists
  vault,        \* vault file -> [content, mtime, readable]
  compression,  \* config["compression"]
  now,          \* the clock
  file_hashes,  \* table file_hashes: file_path -> row (committed)
  backups,      \* table backups: set of rows (committed)
  next_id,      \* AUTOINCREMENT sequence of table backups
  disk,         \* backup directory -> (relative path -> bytes)
  run,          \* the create_backup call in progress
  ret,          \* what the operation that just ended returned
  restored,     \* the destination of the last restore: whether the
                \* directory was made, and its files
  recorded,     \* serials of the create_backup calls that inserted a row
  runs,         \* create_backup calls so far
  edits,        \* vault changes so far
  tampers       \* changes made to backup directories from outside so far

vars ==
  <<vault_root, vault, compression, now, file_hashes, backups, next_id, disk, run, ret,
    restored, recorded, runs, edits, tampers>>

Idle == [pc |-> "idle"]

NoRet == [op |-> "none", id |-> NULL, val |-> "none"]

\* datetime.now().isoformat()
\* a restore destination that does not exist
NoDest == [made |-> FALSE, files |-> Empty]

Timestamp == isoformat(now)

\* backup_root / f"backup_{timestamp.replace(':', '-')}"
backup_dir(timestamp) == <<"backup_">> \o timestamp

\* what open(file, "rb").read() yields
Read(f) == IF vault[f].readable THEN vault[f].content ELSE Unreadable

(***************************************************************************)
(* calculate_backup_checksum                                               *)
(***************************************************************************)
\* the orders in which rglob may enumerate the files of a directory
Orders(S) ==
  {o \in [1..Cardinality(S) -> S] : \A i, j \in 1..Cardinality(S) : o[i] = o[j] => i = j}

\* the enumeration of one call of rglob; the order is the file system's
rglob(S) == CHOOSE o \in Orders(S) : TRUE

\* p at its place in the sorted list s
RECURSIVE Insert(_, _)
Insert(p, s) ==
  IF s = <<>> THEN <<p>>
  ELSE IF PathLess(p, Head(s)) THEN <<p>> \o s
  ELSE <<Head(s)>> \o Insert(p, Tail(s))

\* the list is digested in the order of the enumeration
sorted_AsEnumerated(order) == order

\* sorted() of a list of paths
RECURSIVE sorted(_)
sorted(order) ==
  IF order = <<>> THEN <<>>
  ELSE Insert(Head(order), sorted(Tail(order)))

\* sorted(backup_dir.rglob("*")), files only
Sorted(S) == sorted(rglob(S))

\* the bytes fed to the digest: for each file in sorted order its relative
\* path, then its content
RECURSIVE Feed(_, _)
Feed(dir, order) ==
  IF order = <<>> THEN <<>>
  ELSE Head(order) \o dir[Head(order)] \o Feed(dir, Tail(order))

\* open() of a file of the directory raises
ChecksumRaises(dir) == \E p \in DOMAIN dir : dir[p] = Unreadable

calculate_backup_checksum(dir) == hexdigest(Feed(dir, Sorted(DOMAIN dir)))

(***************************************************************************)
(* get_changed_files                                                       *)
(***************************************************************************)
\* the branch for a file without a row is lost
IsChanged_NoNew(f) ==
  /\ f \in DOMAIN file_hashes
  /\ vault[f].mtime > fromisoformat(file_hashes[f].last_modified)
  /\ calculate_file_hash(Read(f)) # file_hashes[f].last_hash

\* the hash is not compared: a later modification time is enough
IsChanged_MtimeOnly(f) ==
  IF f \in DOMAIN file_hashes
  THEN vault[f].mtime > fromisoformat(file_hashes[f].last_modified)
  ELSE TRUE

\* >= in place of > in line 159
IsChanged_Ge(f) ==
  IF f \in DOMAIN file_hashes
  THEN /\ vault[f].mtime >= fromisoformat(file_hashes[f].last_modified)
       /\ calculate_file_hash(Read(f)) # file_hashes[f].last_hash
  ELSE TRUE

IsChanged(f) ==
  IF f \in DOMAIN file_hashes
  THEN /\ vault[f].mtime > fromisoformat(file_hashes[f].last_modified)
       /\ calculate_file_hash(Read(f)) # file_hashes[f].last_hash
  ELSE TRUE

get_changed_files ==
  {f \in DOMAIN vault : ~should_exclude(f) /\ IsChanged(f)}

\* the full walk consults the index as the change detector does
AllFiles_Changed ==
  {f \in DOMAIN vault :
     /\ ~should_exclude(f)
     /\ f \in DOMAIN file_hashes =>
          vault[f].mtime > fromisoformat(file_hashes[f].last_modified)}

\* the full walk of create_backup, lines 182-185
AllFiles == {f \in DOMAIN vault : ~should_exclude(f)}

(***************************************************************************)
(* get_vault_health_snapshot                                               *)
(***************************************************************************)
\* json.load accepts the text
IsJson(c) == c # <<>> /\ Head(c) = "{"

\* health_data.get("summary", {}).get(key, default): the value the file
\* gives the key, or the default
SummaryGet(c, key, default) ==
  IF \E i \in 1..Len(c) : c[i] = key THEN <<"value", key>> ELSE default

\* the return of line 303, for a file that is missing or whose reading or
\* parsing raised
HealthError == [error |-> "Health data not available"]

\* lines 288-303
get_vault_health_snapshot ==
  IF F_health \notin DOMAIN vault THEN HealthError
  ELSE IF ~vault[F_health].readable \/ ~IsJson(vault[F_health].content)
       THEN HealthError
  ELSE [total_files |-> SummaryGet(vault[F_health].content, "total_files", 0),
        broken_links |->
          SummaryGet(vault[F_health].content, "broken_links_count", 0),
        scan_date |-> SummaryGet(vault[F_health].content, "scan_date", "")]

\* lines 236-243: the metadata of the record (git_commit and backup_stats
\* are left out)
Metadata == [vault_health_snapshot |-> get_vault_health_snapshot]

(***************************************************************************)
(* Init                                                                    *)
(***************************************************************************)
InitContent(f) == IF f = F_gz THEN <<"GZ", "x">> ELSE <<"x">>

\* rglob of a vault_path that does not exist yields no file
Init ==
  /\ vault_root \in BOOLEAN
  /\ \E present \in SUBSET Files :
       /\ Cardinality(present) <= MaxFiles
       /\ ~vault_root => present = {}
       /\ vault = [f \in present |->
                     [content |-> InitContent(f), mtime |-> 0, readable |-> TRUE]]
  /\ compression \in BOOLEAN
  /\ now = 0
  /\ file_hashes = Empty
  /\ backups = {}
  /\ next_id = 1
  /\ disk = Empty
  /\ run = Idle
  /\ ret = NoRet
  /\ restored = NoDest
  /\ recorded = {}
  /\ runs = 0
  /\ edits = 0
  /\ tampers = 0

\* A vault with or without the results file of the health check
InitHealth ==
  /\ vault_root = TRUE
  /\ \E present \in SUBSET {F_note, F_health} :
       vault \in [present -> [content : {<<"x">>} \cup HealthContents,
                              mtime : {0},
                              readable : BOOLEAN]]
  /\ \A f \in DOMAIN vault :
       vault[f].content \in (IF f = F_health THEN HealthContents ELSE {<<"x">>})
  /\ compression \in BOOLEAN
  /\ now = 0
  /\ file_hashes = Empty
  /\ backups = {}
  /\ next_id = 1
  /\ disk = Empty
  /\ run = Idle
  /\ ret = NoRet
  /\ restored = NoDest
  /\ recorded = {}
  /\ runs = 0
  /\ edits = 0
  /\ tampers = 0

\* The states in which change detection can find a vault and its index
\* after earlier runs: a file has no row, or a row with the hash of the
\* bytes a run saw, or a row with the empty hash (line 214 of a run that
\* could copy the file and could no longer read it when it hashed it); the
\* file was written since or not, is readable now or not.
InitDetect ==
  /\ vault_root = TRUE
  /\ \E present \in SUBSET Files :
       /\ Cardinality(present) <= MaxFiles
       /\ vault \in [present -> [content : {<<"x">>, <<"y">>},
                                 mtime : {0, 1},
                                 readable : BOOLEAN]]
       /\ \E tracked \in SUBSET present :
            file_hashes \in
              [tracked -> [last_hash : {hexdigest(<<"x">>), NoHash},
                           last_modified : {isoformat(0)},
                           last_backup_id : {NULL},
                           serial : {0},
                           seen : {[content |-> <<"x">>, mtime |-> 0]}]]
  /\ compression \in BOOLEAN
  /\ now = 1
  /\ backups = {}
  /\ next_id = 1
  /\ disk = Empty
  /\ run = Idle
  /\ ret = NoRet
  /\ restored = NoDest
  /\ recorded = {}
  /\ runs = 0
  /\ edits = 0
  /\ tampers = 0

(***************************************************************************)
(* create_backup                                                           *)
(***************************************************************************)
\* lines 171-190: the timestamp, the destination directory, the file set.
\* The clock moves on while the run works: a later call of datetime.now()
\* reads a later instant.
CreateStart(backup_type) ==
  /\ run.pc = "idle"
  /\ runs < MaxRuns
  /\ now < MaxTime
  /\ now' = now + 1
  /\ LET dir == backup_dir(Timestamp)
         sel == IF backup_type = "incremental" THEN get_changed_files
                ELSE AllFiles
     IN  /\ disk' = IF dir \in DOMAIN disk THEN disk ELSE Put(disk, dir, Empty)
         /\ run' = [pc |-> "copy",
                    backup_type |-> backup_type,
                    timestamp |-> Timestamp,
                    backup_dir |-> dir,
                    files_to_backup |-> sel,
                    todo |-> sel,
                    cur |-> <<>>,
                    pending |-> Empty,
                    total_size |-> 0,
                    copied_files |-> 0,
                    serial |-> runs + 1,
                    copied |-> Empty]
  /\ runs' = runs + 1
  /\ ret' = NoRet
  /\ UNCHANGED <<vault_root, vault, compression, file_hashes, backups, next_id,
                 restored, recorded, edits, tampers>>

\* where a vault file is stored in the backup directory, line 203
Compressed(f) == compression /\ Suffix(f) \in Compressible
Dest(f) == IF Compressed(f) THEN f \o <<".gz">> ELSE f
Stored(f, c) == IF Compressed(f) THEN gzip(c) ELSE c

\* the run ends with an exception: the open transaction is rolled back
Abort == [pc |-> "idle"]

\* the exception of the copy of f ends the run
Skip_Abort(f) == Abort

\* lines 226-227: the exception of the copy of f is printed, the loop goes
\* on with the next file
Skip(f) == [run EXCEPT !.todo = @ \ {f}]

\* the upserts of the run are committed although the with block is left by
\* an exception
Rollback_Commit == Merge(file_hashes, run.pending)

\* line 192: an exception leaves the with block, the connection rolls the
\* open transaction back and table file_hashes is as it was before the run
Rollback == file_hashes

\* lines 195-211: one iteration of the loop up to the end of the copy
CopyFile(f, outcome) ==
  /\ run.pc = "copy"
  /\ f \in run.todo
  /\ LET dir == run.backup_dir
         rest == [run EXCEPT !.todo = @ \ {f}]
         readable == f \in DOMAIN vault /\ vault[f].readable
     IN  CASE outcome = "mkdir" ->
                \* dest_path.parent.mkdir raises, outside the try block
                /\ Parent(f) # <<>>
                /\ run' = Abort
                /\ file_hashes' = Rollback
                /\ ret' = [op |-> "create_backup", id |-> NULL, val |-> "raise",
                           rolled_back |-> DOMAIN run.pending]
                /\ UNCHANGED disk
           [] outcome = "partial" ->
                \* the copy raises after the destination file was created
                /\ readable
                /\ disk' = [disk EXCEPT ![dir] = Put(@, Dest(f), Stored(f, <<>>))]
                /\ run' = Skip(f)
                /\ UNCHANGED <<file_hashes, ret>>
           [] outcome = "ok" ->
                IF readable
                THEN /\ disk' = [disk EXCEPT
                                   ![dir] = Put(@, Dest(f), Stored(f, vault[f].content))]
                     /\ run' = [rest EXCEPT !.pc = "hash", !.cur = f,
                                  !.copied = Put(@, f, vault[f].content)]
                     /\ UNCHANGED <<file_hashes, ret>>
                ELSE \* open(file_path, 'rb') raises: nothing is written
                     /\ run' = Skip(f)
                     /\ UNCHANGED <<file_hashes, disk, ret>>
  /\ UNCHANGED <<vault_root, vault, compression, now, backups, next_id,
                 restored, recorded, runs, edits, tampers>>

\* lines 213-224: the hash, the modification time, the upsert, the counters
HashFile ==
  /\ run.pc = "hash"
  /\ LET f == run.cur
         row == [last_hash |-> calculate_file_hash(Read(f)),
                 last_modified |-> isoformat(vault[f].mtime),
                 last_backup_id |-> NULL,
                 serial |-> run.serial,
                 seen |-> [content |-> vault[f].content, mtime |-> vault[f].mtime]]
     IN  IF f \in DOMAIN vault
         THEN run' = [run EXCEPT !.pc = "copy",
                                 !.cur = <<>>,
                                 !.pending = Put(@, f, row),
                                 !.total_size = @ + Size(vault[f].content),
                                 !.copied_files = @ + 1]
         ELSE \* the file is gone: file_path.stat() raises (line 215), the
              \* except of line 226 prints, the file is not counted
              run' = [run EXCEPT !.pc = "copy", !.cur = <<>>]
  /\ UNCHANGED <<vault_root, vault, compression, now, file_hashes, backups, next_id, disk,
                 ret, restored, recorded, runs, edits, tampers>>

\* line 227: the with block of line 192 ends, its transaction is committed
CommitHashes ==
  /\ run.pc = "copy"
  /\ run.todo = {}
  /\ file_hashes' = Merge(file_hashes, run.pending)
  /\ run' = [run EXCEPT !.pc = "checksum", !.pending = Empty]
  /\ UNCHANGED <<vault_root, vault, compression, now, backups, next_id, disk, ret,
                 restored, recorded, runs, edits, tampers>>

\* sum of st_size over the files of the backup directory, line 233
RECURSIVE SumSize(_, _)
SumSize(dir, S) ==
  IF S = {} THEN 0
  ELSE LET p == CHOOSE q \in S : TRUE
       IN  Size(dir[p]) + SumSize(dir, S \ {p})

\* the checksum is taken over the source files the run copied instead of
\* over the backup directory
backup_checksum_Source ==
  hexdigest(Feed(run.copied, Sorted(DOMAIN run.copied)))

\* line 230: the checksum the run stores
backup_checksum == calculate_backup_checksum(disk[run.backup_dir])

\* INTEGER PRIMARY KEY without AUTOINCREMENT: one more than the largest id
\* in the table
lastrowid_MaxPlusOne ==
  IF backups = {} THEN 1
  ELSE (CHOOSE i \in {b.id : b \in backups} : \A b \in backups : b.id <= i) + 1

\* lines 77 and 256: the id AUTOINCREMENT gives the row, one more than the
\* largest id the table ever held
lastrowid == next_id

\* lines 229-271: the checksum, the sizes, the row of table backups
InsertRecord ==
  /\ run.pc = "checksum"
  /\ LET dir == disk[run.backup_dir]
     IN  IF ChecksumRaises(dir)
         THEN /\ ret' = [op |-> "create_backup", id |-> NULL, val |-> "raise"]
              /\ UNCHANGED <<backups, next_id, recorded>>
         ELSE /\ backups' = backups \cup
                   {[id |-> lastrowid,
                     timestamp |-> run.timestamp,
                     backup_type |-> run.backup_type,
                     file_count |-> run.copied_files,
                     total_size |-> run.total_size,
                     compressed_size |-> SumSize(dir, DOMAIN dir),
                     checksum |-> backup_checksum,
                     backup_path |-> run.backup_dir,
                     metadata |-> Metadata,
                     serial |-> run.serial,
                     files |-> run.files_to_backup,
                     copied |-> run.copied,
                     dir0 |-> dir]}
              /\ next_id' = next_id + 1
              /\ recorded' = recorded \cup {run.serial}
              /\ ret' = [op |-> "create_backup", id |-> lastrowid, val |-> "ok"]
  /\ run' = Idle
  /\ UNCHANGED <<vault_root, vault, compression, now, file_hashes, disk, restored, runs,
                 edits, tampers>>

\* the process is killed during create_backup: the open transaction, if
\* any, is rolled back by SQLite
Kill ==
  /\ run.pc # "idle"
  /\ run' = Idle
  /\ ret' = [op |-> "create_backup", id |-> NULL, val |-> "killed"]
  /\ UNCHANGED <<vault_root, vault, compression, now, file_hashes, backups, next_id, disk,
                 restored, recorded, runs, edits, tampers>>

(***************************************************************************)
(* verify_backup                                                           *)
(***************************************************************************)
Row(id) == CHOOSE b \in backups : b.id = id

verify_backup(id) ==
  IF ~\E b \in backups : b.id = id THEN "false"
  ELSE IF Row(id).backup_path \notin DOMAIN disk THEN "false"
  ELSE IF ChecksumRaises(disk[Row(id).backup_path]) THEN "raise"
  ELSE IF calculate_backup_checksum(disk[Row(id).backup_path]) = Row(id).checksum
       THEN "true"
       ELSE "false"

\* the ids a caller may pass: those assigned so far and one that never was
Ids == 1..next_id

Verify(id) ==
  /\ run.pc = "idle"
  /\ ret' = [op |-> "verify_backup", id |-> id, val |-> verify_backup(id)]
  /\ UNCHANGED <<vault_root, vault, compression, now, file_hashes, backups, next_id, disk,
                 run, restored, recorded, runs, edits, tampers>>

(***************************************************************************)
(* restore_backup                                                          *)
(***************************************************************************)
\* lines 436-449 over the files in the order given; out is the destination
RECURSIVE RestoreFiles(_, _, _)
RestoreFiles(dir, order, out) ==
  IF order = <<>> THEN [out |-> out, val |-> "true"]
  ELSE LET p == Head(order)
           c == dir[p]
       IN  IF c = Unreadable THEN [out |-> out, val |-> "raise"]
           ELSE IF Suffix(p) = ".gz"
           THEN IF IsGzip(c)
                THEN RestoreFiles(dir, Tail(order), Put(out, WithoutSuffix(p), gunzip(c)))
                ELSE \* the destination is opened before the first read fails
                     [out |-> Put(out, WithoutSuffix(p), <<>>), val |-> "raise"]
           ELSE RestoreFiles(dir, Tail(order), Put(out, p, c))

\* the backup is verified before it is restored
restore_refused_Unverified(id) ==
  \/ ~\E b \in backups : b.id = id
  \/ Row(id).backup_path \notin DOMAIN disk
  \/ verify_backup(id) # "true"

\* lines 421-430: no row has the id, or the backup directory is missing
restore_refused(id) ==
  \/ ~\E b \in backups : b.id = id
  \/ Row(id).backup_path \notin DOMAIN disk

\* restore_path.mkdir comes before the checks
EarlyReturn_Mkdir == [made |-> TRUE, files |-> Empty]

\* the destination after a return False of lines 423 and 430: both come
\* before restore_path.mkdir (line 433)
EarlyReturn == NoDest

Restore(id) ==
  /\ run.pc = "idle"
  /\ IF restore_refused(id)
     THEN /\ ret' = [op |-> "restore_backup", id |-> id, val |-> "false"]
          /\ restored' = EarlyReturn
     ELSE LET dir == disk[Row(id).backup_path]
          IN  \E order \in Orders(DOMAIN dir) :
                LET r == RestoreFiles(dir, order, Empty)
                IN  /\ ret' = [op |-> "restore_backup", id |-> id, val |-> r.val]
                    /\ restored' = [made |-> TRUE, files |-> r.out]
  /\ UNCHANGED <<vault_root, vault, compression, now, file_hashes, backups, next_id, disk,
                 run, recorded, runs, edits, tampers>>

(***************************************************************************)
(* list_backups                                                            *)
(***************************************************************************)
\* ORDER BY timestamp ASC
OrderedDesc_Asc(l) ==
  \A i, j \in 1..Len(l) : i < j => ~TextLess(l[j].timestamp, l[i].timestamp)

\* ORDER BY timestamp DESC over the TEXT column; the order of rows with
\* equal timestamps is SQLite's
OrderedDesc(l) ==
  \A i, j \in 1..Len(l) : i < j => ~TextLess(l[i].timestamp, l[j].timestamp)

\* lines 366-376: the dictionary of one row (the sizes in MB are left out)
Entry(b) ==
  [id |-> b.id,
   timestamp |-> b.timestamp,
   type |-> b.backup_type,
   file_count |-> b.file_count,
   path |-> b.backup_path,
   exists |-> b.backup_path \in DOMAIN disk]

ListBackups ==
  /\ run.pc = "idle"
  /\ \E l \in Orders(backups) :
       /\ OrderedDesc(l)
       /\ ret' = [op |-> "list_backups", id |-> NULL,
                  val |-> [i \in 1..Len(l) |-> Entry(l[i])]]
  /\ UNCHANGED <<vault_root, vault, compression, now, file_hashes, backups,
                 next_id, disk, run, restored, recorded, runs, edits, tampers>>

(***************************************************************************)
(* cleanup_old_backups                                                     *)
(***************************************************************************)
\* the retention period is not subtracted
Cutoff_Now == isoformat(now)

\* (datetime.now() - timedelta(days=retention_days)).isoformat()
Cutoff == isoformat(now - RetentionDays * TicksPerDay)

\* SELECT id, backup_path FROM backups WHERE timestamp < ?
old_backups == {b \in backups : TextLess(b.timestamp, Cutoff)}

\* the row is deleted whether or not rmtree raised
RowsKept_None(failing) == backups \ old_backups

\* the exception of rmtree leaves the loop and the with block: the
\* transaction is rolled back, no row is deleted
RowsKept_Rollback(failing) ==
  IF failing = {} THEN backups \ old_backups ELSE backups

\* lines 395-405: the rows left when rmtree raises for the directories in
\* failing
RowsKept(failing) ==
  {b \in backups : b \notin old_backups \/ b.backup_path \in failing}

\* failing: the directories whose rmtree raises; left: the files rmtree did
\* not get to before it raised
Cleanup ==
  /\ run.pc = "idle"
  /\ LET oldDirs == {b.backup_path : b \in old_backups} \cap DOMAIN disk
         paths == UNION {DOMAIN disk[d] : d \in oldDirs}
     IN  \E failing \in SUBSET oldDirs :
           \E left \in [failing -> SUBSET paths] :
             /\ \A d \in failing : left[d] \subseteq DOMAIN disk[d]
             /\ disk' = [d \in DOMAIN disk \ (oldDirs \ failing) |->
                           IF d \in failing
                           THEN [p \in left[d] |-> disk[d][p]]
                           ELSE disk[d]]
             /\ backups' = RowsKept(failing)
             \* removed: the lines "Removed old backup" printed (line 400),
             \* failed: the lines "Error removing backup" (line 405)
             /\ ret' = [op |-> "cleanup_old_backups", id |-> NULL, val |-> "none",
                        removed |-> oldDirs \ failing,
                        failed |-> {b.id : b \in {o \in old_backups :
                                                    o.backup_path \in failing}}]
  /\ UNCHANGED <<vault_root, vault, compression, now, file_hashes, next_id, run, restored,
                 recorded, runs, edits, tampers>>

(***************************************************************************)
(* The environment: the clock, the owner of the vault, whoever has access  *)
(* to the backup root.                                                     *)
(***************************************************************************)
Tick ==
  /\ run.pc = "idle"
  /\ now < MaxTime
  /\ now' = now + 1
  /\ ret' = NoRet
  /\ UNCHANGED <<vault_root, vault, compression, file_hashes, backups, next_id, disk, run,
                 restored, recorded, runs, edits, tampers>>

\* the system clock is set back (an NTP step, the end of daylight saving
\* time: datetime.now() is naive local time)
ClockBack ==
  /\ run.pc = "idle"
  /\ \E t \in 0..(now - 1) : now' = t
  /\ ret' = NoRet
  /\ UNCHANGED <<vault_root, vault, compression, file_hashes, backups, next_id, disk, run,
                 restored, recorded, runs, edits, tampers>>

\* the owner works between two runs, or while a run is between the copy of
\* a file and its hash
EnvTurn == run.pc \in {"idle", "hash"} /\ edits < MaxEdits

EnvFrame ==
  /\ edits' = edits + 1
  /\ ret' = NoRet
  /\ UNCHANGED <<vault_root, compression, now, file_hashes, backups, next_id, disk, run,
                 restored, recorded, runs, tampers>>

\* a write to the file: new bytes, the modification time is the time of
\* the write
Edit(f, c) ==
  /\ EnvTurn
  /\ f \in DOMAIN vault
  /\ c # vault[f].content
  /\ now > vault[f].mtime
  /\ vault' = [vault EXCEPT ![f].content = c, ![f].mtime = now]
  /\ EnvFrame

\* touch: the modification time advances, the bytes stay
Touch(f) ==
  /\ EnvTurn
  /\ f \in DOMAIN vault
  /\ now > vault[f].mtime
  /\ vault' = [vault EXCEPT ![f].mtime = now]
  /\ EnvFrame

\* the file is replaced by one with other bytes whose modification time is
\* not later (cp -p, rsync -t, a restore with shutil.copy2)
Replace(f, c) ==
  /\ EnvTurn
  /\ f \in DOMAIN vault
  /\ c # vault[f].content
  /\ vault' = [vault EXCEPT ![f].content = c]
  /\ EnvFrame

\* the file is deleted
Remove(f) ==
  /\ EnvTurn
  /\ f \in DOMAIN vault
  /\ vault' = Drop(vault, {f})
  /\ EnvFrame

\* chmod: the file becomes unreadable or readable again
Chmod(f) ==
  /\ EnvTurn
  /\ f \in DOMAIN vault
  /\ vault' = [vault EXCEPT ![f].readable = ~@]
  /\ EnvFrame

TamperFrame ==
  /\ run.pc = "idle"
  /\ tampers < MaxTamper
  /\ tampers' = tampers + 1
  /\ ret' = NoRet
  /\ UNCHANGED <<vault_root, vault, compression, now, file_hashes, backups, next_id, run,
                 restored, recorded, runs, edits>>

\* a file of a backup directory is overwritten or made unreadable
TamperFile(d, p, c) ==
  /\ d \in DOMAIN disk
  /\ p \in DOMAIN disk[d]
  /\ c # disk[d][p]
  /\ disk' = [disk EXCEPT ![d][p] = c]
  /\ TamperFrame

\* a file of a backup directory is renamed and rewritten: the first bytes
\* of its content are moved to the end of its name
TamperShift(d, p) ==
  /\ d \in DOMAIN disk
  /\ p \in DOMAIN disk[d]
  /\ disk[d][p] \notin {<<>>, Unreadable}
  /\ (p \o <<Head(disk[d][p])>>) \notin DOMAIN disk[d]
  /\ disk' = [disk EXCEPT
                ![d] = Put(Drop(@, {p}), p \o <<Head(@[p])>>, Tail(@[p]))]
  /\ TamperFrame

\* a backup directory is removed
TamperRmdir(d) ==
  /\ d \in DOMAIN disk
  /\ disk' = Drop(disk, {d})
  /\ TamperFrame

(***************************************************************************)
(* Specification.                                                          *)
(***************************************************************************)
BackupTypes == {"manual", "incremental", "full"}

\* the backup writer and an external kill
Writer ==
  \/ \E t \in BackupTypes : CreateStart(t)
  \/ \E f \in Files, o \in {"ok", "partial", "mkdir"} : CopyFile(f, o)
  \/ HashFile
  \/ CommitHashes
  \/ InsertRecord
  \/ Kill

\* the owner of the vault
Owner ==
  \/ \E f \in Files, c \in Bytes : Edit(f, c)
  \/ \E f \in Files : Touch(f)
  \/ \E f \in Files, c \in Bytes : Replace(f, c)
  \/ \E f \in Files : Chmod(f)
  \/ \E f \in Files : Remove(f)

\* changes to the backup root from outside
Tamper ==
  \/ \E d \in DOMAIN disk, p \in UNION {DOMAIN disk[e] : e \in DOMAIN disk},
        c \in {<<"z">>, Unreadable} : TamperFile(d, p, c)
  \/ \E d \in DOMAIN disk, p \in UNION {DOMAIN disk[e] : e \in DOMAIN disk} :
       TamperShift(d, p)
  \/ \E d \in DOMAIN disk : TamperRmdir(d)

Next ==
  \/ Writer
  \/ Owner
  \/ Tick
  \/ ClockBack
  \/ Tamper
  \/ \E id \in Ids : Verify(id)
  \/ \E id \in Ids : Restore(id)
  \/ Cleanup
  \/ ListBackups

Spec == Init /\ [][Next]_vars

\* backups of a vault that its owner edits
SpecBackup == Init /\ [][Writer \/ Owner]_vars

\* backups, changes to the backup root, verification and restore
SpecVerify == Init /\ [][Writer \/ Tamper \/ (\E id \in Ids : Verify(id))]_vars

SpecRestore == Init /\ [][Writer \/ Tamper \/ (\E id \in Ids : Restore(id))]_vars

\* backups and retention; a backup directory may be removed from outside
SpecRetention ==
  Init /\ [][Writer \/ Tick \/ Cleanup \/ (\E d \in DOMAIN disk : TamperRmdir(d))]_vars

\* every operation on the index: backups whose copies succeed or are
\* skipped, retention, verification, restore
SpecIndex ==
  Init /\ [][\/ \E t \in BackupTypes : CreateStart(t)
             \/ \E f \in Files : CopyFile(f, "ok")
             \/ HashFile
             \/ CommitHashes
             \/ InsertRecord
             \/ Tick
             \/ Cleanup
             \/ \E id \in Ids : Verify(id)
             \/ \E id \in Ids : Restore(id)]_vars

\* backups, retention, removal of a backup directory from outside, and the
\* listing of the index
SpecList ==
  Init /\ [][\/ \E t \in BackupTypes : CreateStart(t)
             \/ \E f \in Files : CopyFile(f, "ok")
             \/ HashFile
             \/ CommitHashes
             \/ InsertRecord
             \/ Tick
             \/ Cleanup
             \/ \E d \in DOMAIN disk : TamperRmdir(d)
             \/ ListBackups]_vars

\* incremental backups of a vault that earlier runs have indexed
SpecDetect ==
  InitDetect /\ [][\/ CreateStart("incremental")
                   \/ \E f \in Files : CopyFile(f, "ok")
                   \/ HashFile
                   \/ CommitHashes
                   \/ InsertRecord]_vars

\* backups of a vault in which the health check may have left its results
SpecMeta ==
  InitHealth /\ [][\/ \E t \in BackupTypes : CreateStart(t)
                   \/ \E f \in {F_note, F_health} : CopyFile(f, "ok")
                   \/ HashFile
                   \/ CommitHashes
                   \/ InsertRecord
                   \/ \E f \in {F_note, F_health} : Remove(f)
                   \/ \E f \in {F_note, F_health} : Chmod(f)]_vars

\* backups on a machine whose clock may be set back
SpecClock == Init /\ [][Writer \/ ClockBack]_vars

(***************************************************************************)
(* Properties.                                                             *)
(***************************************************************************)
\* the file set of a run has just been determined: nothing was copied and
\* the owner of the vault has not acted since
JustSelected == run.pc = "copy" /\ run.todo = run.files_to_backup

\* C1: when no run is in progress (a run has completed, aborted or was
\* killed), every file_hashes row was upserted by a run whose backups row
\* was inserted: no upserts of a run are in the index without its record.
C1_NoUpsertWithoutRecord ==
  run.pc = "idle" => \A f \in DOMAIN file_hashes : file_hashes[f].serial \in recorded

\* C2: after restore_backup of a full backup whose directory is as the run
\* left it, every file the run copied is in the destination under its
\* relative path with the bytes it had when it was copied.
C2_RoundTrip ==
  (/\ ret.op = "restore_backup"
   /\ \E b \in backups : b.id = ret.id
   /\ Row(ret.id).backup_type = "full"
   /\ Row(ret.id).backup_path \in DOMAIN disk
   /\ disk[Row(ret.id).backup_path] = Row(ret.id).dir0)
  => \A f \in DOMAIN Row(ret.id).copied :
       /\ f \in DOMAIN restored.files
       /\ restored.files[f] = Row(ret.id).copied[f]

\* C3 as stated: the file set of an incremental run holds every file that
\* is not excluded and has no row, or whose bytes differ from the bytes the
\* index recorded at its last backup.
C3_AllModifiedSelected ==
  (JustSelected /\ run.backup_type = "incremental")
  => \A f \in DOMAIN vault :
       (/\ ~should_exclude(f)
        /\ \/ f \notin DOMAIN file_hashes
           \/ vault[f].content # file_hashes[f].seen.content)
       => f \in run.files_to_backup

\* C3 as amended: the file set of an incremental run holds every file that
\* is not excluded and has no row, or whose modification time is later than
\* the recorded last_modified and whose hash, as the Content Hasher computes
\* it now, differs from last_hash.
C3_NewOrLaterAndHashDiffers ==
  (JustSelected /\ run.backup_type = "incremental")
  => \A f \in DOMAIN vault :
       (/\ ~should_exclude(f)
        /\ \/ f \notin DOMAIN file_hashes
           \/ /\ fromisoformat(file_hashes[f].last_modified) < vault[f].mtime
              /\ file_hashes[f].last_hash #
                   (IF vault[f].readable THEN hexdigest(vault[f].content) ELSE NoHash))
       => f \in run.files_to_backup

\* an incremental run has selected a file that has a row
C3_Witness ==
  /\ JustSelected
  /\ run.backup_type = "incremental"
  /\ \E f \in run.files_to_backup : f \in DOMAIN file_hashes

\* the bytes and the modification time of f are those the writer saw when
\* it wrote the row of f
Unmodified(f) ==
  /\ vault[f].content = file_hashes[f].seen.content
  /\ vault[f].mtime = file_hashes[f].seen.mtime

\* one step, for C4: the start of an incremental run, and a step of one
C4_Step ==
  /\ (run.pc = "idle" /\ run'.pc = "copy" /\ run'.backup_type = "incremental")
     => \A f \in DOMAIN vault \cap DOMAIN file_hashes :
          Unmodified(f) => f \notin run'.files_to_backup
  /\ (run.pc # "idle" /\ run.backup_type = "incremental")
     => \A f \in DOMAIN file_hashes \ run.files_to_backup :
          /\ f \in DOMAIN file_hashes'
          /\ file_hashes'[f].last_hash = file_hashes[f].last_hash

\* C4: a step that starts an incremental run leaves every backed-up,
\* unmodified file out of the file set, and no step of an incremental run
\* changes the row of a file that is not in its file set, so last_hash is
\* the same after the run as before.
C4_UnmodifiedSkipped == [][C4_Step]_vars

\* an incremental run has left out a file that has a row and is unmodified
C4_Witness ==
  /\ JustSelected
  /\ run.backup_type = "incremental"
  /\ \E f \in DOMAIN vault \cap DOMAIN file_hashes :
       Unmodified(f) /\ f \notin run.files_to_backup

\* C5: the file set of a run that is not incremental is the set of the
\* vault's files that are not excluded, whatever the index holds.
C5_FullSelectsAll ==
  (JustSelected /\ run.backup_type # "incremental")
  => run.files_to_backup = {f \in DOMAIN vault : ~should_exclude(f)}

\* a full or manual run has selected a file whose row says it is unchanged
C5_Witness ==
  /\ JustSelected
  /\ run.backup_type # "incremental"
  /\ \E f \in run.files_to_backup : f \in DOMAIN file_hashes /\ Unmodified(f)

\* f matches the pattern as a glob or, for a pattern without wildcard, as a
\* substring of the relative path
Matches(f, pattern) ==
  \/ PathMatch(f, pattern)
  \/ /\ \A i \in 1..Len(pattern) : pattern[i] # "*"
     /\ Find(f, pattern)

MatchesAny(f) == \E pattern \in ExcludePatterns : Matches(f, pattern)

\* C6: a vault file that matches an exclude pattern is in the file set of no
\* run, so it is not among the files a run counted, and no backup directory
\* holds a copy of it, compressed or not.
C6_ExcludedNeverStored ==
  \A f \in DOMAIN vault :
    MatchesAny(f) =>
      /\ run.pc # "idle" => f \notin run.files_to_backup /\ f \notin DOMAIN run.copied
      /\ \A b \in backups :
           /\ f \notin b.files
           /\ f \notin DOMAIN b.copied
           /\ b.file_count <= Cardinality(b.files \ {f})
      /\ \A d \in DOMAIN disk :
           f \notin DOMAIN disk[d] /\ (f \o <<".gz">>) \notin DOMAIN disk[d]

\* a run of a vault that holds an excluded file has counted a file
C6_Witness ==
  /\ \E f \in DOMAIN vault : MatchesAny(f)
  /\ \E b \in backups : b.file_count >= 1

\* C7: verify_backup of a backup whose directory is as create_backup left
\* it returns true.
C7_VerifyAfterCreate ==
  (/\ ret.op = "verify_backup"
   /\ \E b \in backups : b.id = ret.id
   /\ Row(ret.id).backup_path \in DOMAIN disk
   /\ disk[Row(ret.id).backup_path] = Row(ret.id).dir0)
  => ret.val = "true"

\* verify_backup returned true for a run in which a copy failed
C7_Witness ==
  /\ ret.op = "verify_backup"
  /\ ret.val = "true"
  /\ \E b \in backups : b.id = ret.id /\ b.file_count < Cardinality(b.files)

\* C8: verify_backup of an existing record returns false when the backup
\* directory is missing, when a file in it is unreadable, or when the
\* recomputed checksum differs from the stored one.
C8_VerifyReturnsFalse ==
  (/\ ret.op = "verify_backup"
   /\ \E b \in backups : b.id = ret.id
   /\ \/ Row(ret.id).backup_path \notin DOMAIN disk
      \/ \E p \in DOMAIN disk[Row(ret.id).backup_path] :
           disk[Row(ret.id).backup_path][p] = Unreadable
      \/ calculate_backup_checksum(disk[Row(ret.id).backup_path]) # Row(ret.id).checksum)
  => ret.val = "false"

\* the instant of a record against the instant now - retention_days
Older(b) == fromisoformat(b.timestamp) < now - RetentionDays * TicksPerDay
Later(b) == fromisoformat(b.timestamp) > now - RetentionDays * TicksPerDay

\* one step, for C9
C9_Step ==
  Cleanup =>
    \A b \in backups :
      /\ (Older(b) /\ b.backup_path \notin DOMAIN disk') => b \notin backups'
      /\ Later(b) =>
           /\ b \in backups'
           /\ b.backup_path \in DOMAIN disk =>
                /\ b.backup_path \in DOMAIN disk'
                /\ disk'[b.backup_path] = disk[b.backup_path]

\* C9: a cleanup step deletes every record older than now - retention_days
\* whose directory is gone after the step, and keeps every record later
\* than now - retention_days together with its directory.
C9_RetentionBoundary == [][C9_Step]_vars

\* after a cleanup a record was deleted and a later one is kept with its
\* directory
C9_Witness ==
  /\ ret.op = "cleanup_old_backups"
  /\ Cardinality(backups) < next_id - 1
  /\ \E b \in backups : Later(b) /\ b.backup_path \in DOMAIN disk

\* one step, for C10
C10_Step ==
  Cleanup =>
    \A b \in old_backups :
      IF b.backup_path \in DOMAIN disk'
      THEN b \in backups' /\ b \in old_backups'
      ELSE b \notin backups'

\* C10: in a cleanup step, the row of a record older than the cutoff is
\* deleted when its directory is gone after the step (removed or absent
\* before), and is left as it was, still selected by the query of the next
\* pass, when its directory is still there (rmtree raised).
C10_FailedRemovalKeepsRow == [][C10_Step]_vars

\* after a cleanup the index holds a record older than the cutoff whose
\* directory is still there
C10_Witness ==
  /\ ret.op = "cleanup_old_backups"
  /\ \E b \in old_backups : b.backup_path \in DOMAIN disk

\* one step, for C11
C11_Step ==
  Cleanup =>
    /\ ret'.op = "cleanup_old_backups"
    /\ ret'.val # "raise"
    /\ \A b \in old_backups :
         b.id \notin ret'.failed =>
           /\ b.backup_path \notin DOMAIN disk'
           /\ b \notin backups'

\* C11: a cleanup step in which rmtree raises for some eligible backups
\* still returns without raising, and every eligible backup for which
\* rmtree did not raise has its directory gone and its row deleted in the
\* committed state after the step.
C11_FailureNotFatal == [][C11_Step]_vars

\* a cleanup pass in which rmtree raised for one eligible backup has removed
\* the directory and the row of another
C11_Witness ==
  /\ ret.op = "cleanup_old_backups"
  /\ ret.failed # {}
  /\ ret.removed # {}
  /\ \A d \in ret.removed : d \notin DOMAIN disk
  /\ \A b \in backups : b.id \in ret.failed

\* one step, for C12
C12_Step ==
  (run.pc = "idle" /\ run'.pc = "copy") =>
    /\ run'.backup_dir \notin DOMAIN disk
    /\ \A b \in backups : b.backup_path # run'.backup_dir

\* C12: the directory a create_backup run starts to write into did not
\* exist before the run and is the backup_path of no record, whatever the
\* instants at which the runs start.
C12_FreshDirectory == [][C12_Step]_vars

UpsertedBy(s) == {f \in DOMAIN file_hashes : file_hashes[f].serial = s}

\* one step, for C13
C13_Step ==
  \* an iteration of the loop in which the copy raised
  /\ (/\ run.pc = "copy"
      /\ run.todo # {}
      /\ run'.pc # "hash"
      /\ ret'.val \notin {"raise", "killed"})
     => /\ run'.pc = "copy"
        /\ run'.todo # run.todo
        /\ run'.todo \subseteq run.todo
        /\ run'.copied_files = run.copied_files
  \* the end of a run that was not killed
  /\ (run.pc = "checksum" /\ ret'.val # "killed")
     => \E b \in backups' \ backups :
          /\ b.serial = run.serial
          /\ UpsertedBy(b.serial)' \subseteq DOMAIN b.copied
          /\ b.file_count = Cardinality(UpsertedBy(b.serial)')

C14_RestoreRefused ==
  (/\ ret.op = "restore_backup"
   /\ \/ ~\E b \in backups : b.id = ret.id
      \/ Row(ret.id).backup_path \notin DOMAIN disk)
  => /\ ret.val = "false"
     /\ ~restored.made
     /\ restored.files = Empty

\* restore_backup of a record whose directory was removed has returned
C14_Witness ==
  /\ ret.op = "restore_backup"
  /\ \E b \in backups : b.id = ret.id /\ b.backup_path \notin DOMAIN disk
  /\ ret.val = "false"

\* C15: when the vault root does not exist, no backup directory is created,
\* no record is inserted, and a create_backup call that has ended has
\* raised.
C15_MissingVaultFails ==
  ~vault_root =>
    /\ DOMAIN disk = {}
    /\ backups = {}
    /\ ret.op = "create_backup" => ret.val = "raise"

\* C16: after a create_backup call that returned its record, every
\* file_hashes row the run upserted has last_backup_id equal to the id of
\* that record.
C16_LastBackupIdSet ==
  (ret.op = "create_backup" /\ ret.val = "ok")
  => \A f \in UpsertedBy(Row(ret.id).serial) :
       file_hashes[f].last_backup_id = ret.id

\* C17: the id of every record is the ordinal of its insertion among all
\* insertions so far, those of deleted records included; so ids are unique,
\* increase with the order of insertion, are not assigned again after
\* cleanup has freed them, and stay as they were assigned.
C17_IdsNeverReused ==
  /\ \A b \in backups : b.id = Cardinality({s \in recorded : s <= b.serial})
  /\ \A b1, b2 \in backups :
       /\ b1.id = b2.id => b1 = b2
       /\ b1.serial < b2.serial => b1.id < b2.id

\* create_backup has returned id 2 after cleanup deleted the record of id 1
C17_Witness ==
  /\ ret.op = "create_backup"
  /\ ret.val = "ok"
  /\ ret.id = 2
  /\ \A b \in backups : b.id = 2

\* one step, for C18
C18_Step ==
  /\ \A f \in DOMAIN file_hashes : f \in DOMAIN file_hashes'
  /\ (run.pc = "copy" /\ run'.pc = "checksum")
     => \A f \in DOMAIN run.pending : file_hashes'[f] = run.pending[f]
  /\ ret'.op \in {"cleanup_old_backups", "verify_backup", "restore_backup"}
     => file_hashes' = file_hashes

\* C18: no step removes the row of a path from file_hashes (the table
\* holds one row per path, file_path being its primary key); the commit of
\* a run replaces the rows of the paths the run upserted by the run's rows;
\* cleanup, verify and restore leave the table as it is, rows whose record
\* retention deletes included.
C18_EntriesPersist == [][C18_Step]_vars

\* after a cleanup the index holds the row of a file whose last record
\* retention has deleted
C18_Witness ==
  /\ ret.op = "cleanup_old_backups"
  /\ \E f \in DOMAIN file_hashes :
       /\ file_hashes[f].serial \in recorded
       /\ \A b \in backups : b.serial # file_hashes[f].serial

\* every file of the directory can be read, and every file with the suffix
\* .gz can be decompressed
Restorable(dir) ==
  \A p \in DOMAIN dir :
    /\ dir[p] # Unreadable
    /\ Suffix(p) = ".gz" => IsGzip(dir[p])

\* one step, for C19
C19_Step ==
  \A id \in Ids :
    Restore(id) =>
      /\ UNCHANGED <<backups, file_hashes, disk>>
      /\ (/\ \E b \in backups : b.id = id
          /\ Row(id).backup_path \in DOMAIN disk
          /\ Restorable(disk[Row(id).backup_path]))
         => ret'.val = "true"

\* C19: a restore_backup step leaves the tables backups and file_hashes
\* and every backup directory as they were, and it returns True for every
\* record whose directory exists and whose files can be read and
\* decompressed, whether or not the directory still has the checksum of the
\* record.
C19_RestoreReadOnly == [][C19_Step]_vars

\* restore_backup has returned True and written files for a backup whose
\* checksum no longer matches
C19_Witness ==
  /\ ret.op = "restore_backup"
  /\ ret.val = "true"
  /\ restored.files # Empty
  /\ \E b \in backups :
       /\ b.id = ret.id
       /\ b.backup_path \in DOMAIN disk
       /\ calculate_backup_checksum(disk[b.backup_path]) # b.checksum

\* C20: two backup directories with the same relative paths and the same
\* bytes under each path have the same checksum, in whatever orders rglob
\* enumerates the files of the one and of the other; it is the checksum
\* calculate_backup_checksum gives each.
C20_OrderIndependent ==
  \A d1, d2 \in DOMAIN disk :
    disk[d1] = disk[d2] /\ ~ChecksumRaises(disk[d1]) =>
      \A o1 \in Orders(DOMAIN disk[d1]), o2 \in Orders(DOMAIN disk[d2]) :
        /\ hexdigest(Feed(disk[d1], sorted(o1))) = hexdigest(Feed(disk[d2], sorted(o2)))
        /\ hexdigest(Feed(disk[d1], sorted(o1))) = calculate_backup_checksum(disk[d2])

\* two backup directories hold the same two files or more
C20_Witness ==
  \E d1, d2 \in DOMAIN disk :
    /\ d1 # d2
    /\ disk[d1] = disk[d2]
    /\ Cardinality(DOMAIN disk[d1]) >= 2

\* C21: the list list_backups returns has one entry for each row of table
\* backups and no other, each with the fields of its row and with exists
\* telling whether the directory is there; the entries are in descending
\* order of their instants, so a record inserted later comes first.
C21_ListNewestFirst ==
  ret.op = "list_backups" =>
    /\ Len(ret.val) = Cardinality(backups)
    /\ {ret.val[i].id : i \in 1..Len(ret.val)} = {b.id : b \in backups}
    /\ \A i \in 1..Len(ret.val) :
         /\ ret.val[i] = Entry(Row(ret.val[i].id))
         /\ ret.val[i].exists <=> ret.val[i].path \in DOMAIN disk
    /\ \A i, j \in 1..Len(ret.val) :
         i < j =>
           /\ fromisoformat(ret.val[i].timestamp) >= fromisoformat(ret.val[j].timestamp)
           /\ Row(ret.val[i].id).serial > Row(ret.val[j].id).serial

\* list_backups has returned an incremental backup before the full backup
\* that preceded it, one of them without its directory
C21_Witness ==
  /\ ret.op = "list_backups"
  /\ Len(ret.val) = 2
  /\ ret.val[1].type = "incremental"
  /\ ret.val[2].type = "full"
  /\ \E i \in 1..2 : ~ret.val[i].exists

\* the hash of f as the Content Hasher computes it now
CurrentHash(f) == IF vault[f].readable THEN hexdigest(vault[f].content) ELSE NoHash

\* C22: the file set of an incremental run is exactly the set of the vault
\* files that match no exclude pattern and either have no row, or have a
\* modification time later than the recorded last_modified and a hash
\* other than last_hash; a file with a later modification time and the
\* hash of its row is not in it.
C22_ChangedExactly ==
  (JustSelected /\ run.backup_type = "incremental")
  => run.files_to_backup =
       {f \in DOMAIN vault :
          /\ ~MatchesAny(f)
          /\ \/ f \notin DOMAIN file_hashes
             \/ /\ fromisoformat(file_hashes[f].last_modified) < vault[f].mtime
                /\ CurrentHash(f) # file_hashes[f].last_hash}

\* an incremental run has left out a file whose modification time is later
\* than the recorded one and whose hash is that of its row
C22_Witness ==
  /\ JustSelected
  /\ run.backup_type = "incremental"
  /\ \E f \in DOMAIN vault \cap DOMAIN file_hashes :
       /\ fromisoformat(file_hashes[f].last_modified) < vault[f].mtime
       /\ CurrentHash(f) = file_hashes[f].last_hash
       /\ f \notin run.files_to_backup

\* C23: the Content Hasher returns the empty digest for a file that cannot
\* be read, and an incremental run has in its file set every tracked file
\* that is not excluded, whose modification time is later than the recorded
\* one and whose hash cannot be computed, whatever hash its row holds.
C23_UnhashableIsChanged ==
  /\ calculate_file_hash(Unreadable) = NoHash
  /\ (JustSelected /\ run.backup_type = "incremental")
     => \A f \in DOMAIN vault \cap DOMAIN file_hashes :
          (/\ ~MatchesAny(f)
           /\ fromisoformat(file_hashes[f].last_modified) < vault[f].mtime
           /\ ~vault[f].readable)
          => f \in run.files_to_backup

\* C24: the metadata of the record a create_backup call has just returned
\* has no vault_health_snapshot entry when the results file of the health
\* check is missing, and an entry with the values of total_files,
\* broken_links_count and scan_date, and nothing else, when the file is
\* there and holds them.
C24_HealthSnapshot ==
  (ret.op = "create_backup" /\ ret.val = "ok") =>
    LET m == Row(ret.id).metadata
    IN  /\ F_health \notin DOMAIN vault =>
             "vault_health_snapshot" \notin DOMAIN m
        /\ (/\ F_health \in DOMAIN vault
            /\ vault[F_health].readable
            /\ vault[F_health].content = HealthFull)
           => /\ "vault_health_snapshot" \in DOMAIN m
              /\ Cardinality(DOMAIN m.vault_health_snapshot) = 3
              /\ {m.vault_health_snapshot[k] : k \in DOMAIN m.vault_health_snapshot}
                   = {<<"value", "total_files">>,
                      <<"value", "broken_links_count">>,
                      <<"value", "scan_date">>}

\* C25: every row a run has written for a file it counted holds the hash
\* of the bytes the run stored for that file in the backup directory (or
\* the empty hash, when the file could not be read for hashing), also when
\* the owner of the vault writes the file between the copy and the hash.
C25_HashOfStoredBytes ==
  run.pc # "idle" =>
    \A f \in DOMAIN run.pending :
      \/ run.pending[f].last_hash = hexdigest(run.copied[f])
      \/ run.pending[f].last_hash = NoHash

\* C26: between runs, and with no backup directory changed from outside,
\* every vault file that is not excluded and that get_changed_files does
\* not return has a copy of its current bytes in a backup directory that
\* exists (the files are those no other vault file shares its destination
\* path with).
C26_UnchangedHasCopy ==
  (run.pc = "idle" /\ tampers = 0) =>
    \A f \in DOMAIN vault :
      (/\ ~should_exclude(f)
       /\ f \notin get_changed_files
       /\ \A g \in DOMAIN vault \ {f} : Dest(g) # Dest(f))
      => \E d \in DOMAIN disk :
           /\ Dest(f) \in DOMAIN disk[d]
           /\ disk[d][Dest(f)] = Stored(f, vault[f].content)

\* C27: verify_backup does not return True for a record whose directory
\* differs, in the path or the bytes of any file, from the directory the
\* run left.
C27_ChangeDetected ==
  (/\ ret.op = "verify_backup"
   /\ \E b \in backups : b.id = ret.id
   /\ Row(ret.id).backup_path \in DOMAIN disk
   /\ disk[Row(ret.id).backup_path] # Row(ret.id).dir0)
  => ret.val # "true"

\* C28: the files a run selects have pairwise distinct destination paths,
\* and a run that copied and counted every selected file leaves as many
\* files in its directory as its record's file_count says.
C28_OneDestPerFile ==
  /\ run.pc # "idle" =>
       \A f, g \in run.files_to_backup : f # g => Dest(f) # Dest(g)
  /\ (/\ ret.op = "create_backup"
      /\ ret.val = "ok"
      /\ Row(ret.id).file_count = Cardinality(Row(ret.id).files))
     => Cardinality(DOMAIN Row(ret.id).dir0) = Row(ret.id).file_count

\* C29: between operations every directory of the backup root is the
\* backup_path of a row of table backups, also after a run that ended with
\* an exception or was killed.
C29_NoOrphanDirectory ==
  run.pc = "idle" =>
    \A d \in DOMAIN disk : \E b \in backups : b.backup_path = d

\* C30: when create_backup ends because a destination subdirectory cannot
\* be created, tables file_hashes and backups are as they were before the
\* run: the step changes neither, no row of file_hashes was written by the
\* run and no row of backups belongs to it.
C30_Step ==
  (/\ run.pc = "copy"
   /\ ret'.op = "create_backup"
   /\ ret'.val = "raise")
  => /\ file_hashes' = file_hashes
     /\ backups' = backups
     /\ \A f \in DOMAIN file_hashes' : file_hashes'[f].serial # run.serial
     /\ \A b \in backups' : b.serial # run.serial
     /\ run.serial \notin recorded'

C30_AbortRollsBack == [][C30_Step]_vars

\* a run that had hashed a file ended at the creation of a subdirectory
C30_Witness ==
  /\ ret.op = "create_backup"
  /\ ret.val = "raise"
  /\ "rolled_back" \in DOMAIN ret
  /\ ret.rolled_back # {}

=============================================================================
